---------------------------- MODULE Spec2Model ----------------------------
(***************************************************************************)
(* Session / credential lifecycle of the multi-user Spotify MCP server     *)
(* (src/main.py): the spotify_sessions table, get_sp_for_session, the      *)
(* eight MCP tools, and the /login and /callback handlers.                 *)
(*                                                                         *)
(* Every request of a run is a call with a slot of its own, numbered in    *)
(* the order the requests arrive.  A handler is cut                        *)
(* into steps at its network and database round trips (the only points     *)
(* where another handler, in this or another server process sharing the    *)
(* same DATABASE_URL, can get in between); the code takes no lock.         *)
(***************************************************************************)
EXTENDS Integers, Sequences, FiniteSets, TLC

(***************************************************************************)
(* Bounds of the model.                                                    *)
(***************************************************************************)
MaxCalls  == 3      \* requests served in a run
MaxInFlight == 2    \* handler invocations in flight at the same time
MaxIssued == 3      \* access tokens the authorization server issues in a run
MaxGen    == 2      \* refresh-token generations per user
MaxTicks  == 1      \* clock advances in a run

(***************************************************************************)
(* Program constants.                                                      *)
(***************************************************************************)
RandLo == 100       \* random.randint(100, 999)
RandHi == 999
Skew   == 60        \* SpotifyOAuth.is_token_expired: expires_at - now < 60

Calls == 1..MaxCalls
Users == {"u1", "u2"}

(***************************************************************************)
(* Strings are sequences of one-character strings.                         *)
(***************************************************************************)
Upper == <<"A","B","C","D","E","F","G","H","I","J","K","L","M",
           "N","O","P","Q","R","S","T","U","V","W","X","Y","Z">>
Lower == <<"a","b","c","d","e","f","g","h","i","j","k","l","m",
           "n","o","p","q","r","s","t","u","v","w","x","y","z">>
Digit == <<"0","1","2","3","4","5","6","7","8","9">>

IsUpper(ch) == \E i \in 1..26 : Upper[i] = ch
IsLower(ch) == \E i \in 1..26 : Lower[i] = ch
IsDigit(ch) == \E i \in 1..10 : Digit[i] = ch
\* the character class [a-zA-Z0-9]
IsAlnum(ch) == IsUpper(ch) \/ IsLower(ch) \/ IsDigit(ch)

\* variant: .lower() is missing
LowerChar_Identity(ch) == ch

\* str.lower() on one character
LowerChar(ch) == IF IsUpper(ch) THEN Lower[CHOOSE i \in 1..26 : Upper[i] = ch] ELSE ch

\* variant: the character class also lets blanks and punctuation through
re_sub_KeepOthers(s) == s

\* re.sub(r'[^a-zA-Z0-9]', '-', s)
re_sub(s) == [i \in 1..Len(s) |-> IF IsAlnum(s[i]) THEN s[i] ELSE "-"]

\* re.sub(r'[^a-zA-Z0-9]', '-', display_name).lower()
sanitized_name(display_name) ==
    [i \in 1..Len(display_name) |-> LowerChar(re_sub(display_name)[i])]

\* decimal rendering of a non-negative integer, as the f-string does
RECURSIVE IntToStr(_)
IntToStr(n) == IF n < 10 THEN <<Digit[n + 1]>>
               ELSE IntToStr(n \div 10) \o <<Digit[(n % 10) + 1]>>

\* f"{sanitized_name}-{random_id}"
FormatSessionId(name, random_id) == name \o <<"-">> \o IntToStr(random_id)

(***************************************************************************)
(* Inputs.                                                                 *)
(***************************************************************************)
NoStr == <<"<None>">>            \* Python None where a str is expected
DJMax == <<"D","J"," ","M","a","x","!">>
DjMax == <<"d","j","_","m","a","x","?">>
Zed9  == <<"Z","9">>
DefaultName == <<"u","s","e","r">>

\* what the vendor's "whoami" can carry under display_name: a string, null
\* (has_key with no string), or nothing (a profile without the key)
Named(name)    == [has_key |-> TRUE, display_name |-> name]
NullProfile    == [has_key |-> TRUE, display_name |-> NoStr]
KeylessProfile == [has_key |-> FALSE, display_name |-> NoStr]
Profiles == {Named(DJMax), Named(DjMax), Named(Zed9), NullProfile, KeylessProfile}

\* the values drawn for random.randint(RandLo, RandHi) in the model
SuffixSamples == {RandLo, RandHi}

NonexistentId == <<"n","o","n","e","x","i","s","t","e","n","t","-","i","d">>

BadCode == "bad"                 \* a malformed, expired or already used code
Codes   == Users \cup {BadCode}  \* a valid code stands for the user who consented

Tools == {"search_and_play", "pause_playback", "resume_playback", "next_track",
          "get_current_song", "get_my_playlists", "get_recently_played",
          "add_to_playlist"}

(***************************************************************************)
(* Tokens.  The authorization server numbers the access tokens it issues;  *)
(* a token belongs to the user it was issued for.                          *)
(***************************************************************************)
NoAccess  == [user |-> "none", serial |-> 0]
NoRefresh == [user |-> "none", gen |-> 0]
NoToken   == [access_token |-> NoAccess, refresh_token |-> NoRefresh, expires_at |-> 0]

\* variant: the boundary counted as expired
is_token_expired_Inclusive(token_info, t) == token_info.expires_at - t <= Skew

\* SpotifyOAuth.is_token_expired(token_info) at time t
is_token_expired(token_info, t) == token_info.expires_at - t < Skew

\* expires_in values the authorization server grants, and one clock advance
ExpiresIns == {Skew}
TickStep   == 2 * Skew

(***************************************************************************)
(* State.                                                                  *)
(***************************************************************************)
VARIABLES
    db,        \* table spotify_sessions: session_id -> token_info
    now,       \* time.time()
    issued,    \* authorization server: serial of the last access token issued
    rtgen,     \* authorization server: last refresh-token generation per user
    call,      \* per request: the handler, its position and its locals
    environ,   \* os.environ after load_dotenv(): the configuration keys set
    process    \* the server process: "importing", "serving" or "failed"

vars == <<db, now, issued, rtgen, call, environ, process>>

\* lines 19-21 and 29: the four values read with os.getenv
OAuthKeys  == {"SPOTIFY_CLIENT_ID", "SPOTIFY_CLIENT_SECRET",
               "SPOTIFY_REDIRECT_URI"}
ConfigKeys == OAuthKeys \cup {"DATABASE_URL"}

NoResult == [kind |-> "none", err |-> "", text |-> <<>>, session_id |-> <<>>]
Raised(e)   == [kind |-> "raise", err |-> e, text |-> <<>>, session_id |-> <<>>]
Text(t)     == [kind |-> "text", err |-> "", text |-> t, session_id |-> <<>>]
Html(sid)   == [kind |-> "html", err |-> "", text |-> <<>>, session_id |-> sid]
Redirect    == [kind |-> "redirect", err |-> "", text |-> <<"authorize_url">>,
                session_id |-> <<>>]

IdleCall == [kind |-> "none", pc |-> "idle", tool |-> "", session_id |-> <<>>,
             query |-> "", playlist_name |-> "", code |-> "",
             found |-> FALSE, row |-> NoToken, token_info |-> NoToken,
             attempts |-> 0, exchanges |-> 0, resolve |-> "none",
             handle |-> NoAccess, existing |-> FALSE,
             display_name |-> <<>>, random_id |-> 0,
             script |-> <<>>, vendor_calls |-> <<>>, result |-> NoResult,
             after |-> {}]

\* a fully configured process that has finished importing the module
Init ==
    /\ db = <<>>
    /\ now = 0
    /\ issued = 0
    /\ rtgen = [u \in Users |-> 0]
    /\ call = [c \in Calls |-> IdleCall]
    /\ environ = ConfigKeys
    /\ process = "serving"

\* lines 49-56: SpotifyOAuth(...) returns when client_id, client_secret and
\* redirect_uri are set, and raises SpotifyOauthError when one is None
create_spotify_oauth == OAuthKeys \subseteq environ

(***************************************************************************)
(* The authorization server's token endpoint.                              *)
(***************************************************************************)
\* a token response for user u, with refresh token rt and lifetime e
Issue(u, rt, e) == [access_token |-> [user |-> u, serial |-> issued + 1],
                    refresh_token |-> rt, expires_at |-> now + e]

\* refresh tokens a code exchange can return for u: the one it returned
\* before, or a new one
CodeRefreshTokens(u) ==
    (IF rtgen[u] > 0 THEN {[user |-> u, gen |-> rtgen[u]]} ELSE {})
    \cup (IF rtgen[u] < MaxGen THEN {[user |-> u, gen |-> rtgen[u] + 1]} ELSE {})

\* refresh tokens a refresh exchange of rt can leave in token_info: rt itself
\* (the response carries none and spotipy keeps the old one) or a rotated one
RotatedRefreshTokens(rt) ==
    {rt} \cup (IF rtgen[rt.user] < MaxGen
               THEN {[user |-> rt.user, gen |-> rtgen[rt.user] + 1]} ELSE {})

(***************************************************************************)
(* Arrival of requests.                                                    *)
(***************************************************************************)
Done == {c \in Calls : call[c].pc = "done"}
InFlight == {c \in Calls : call[c].pc \notin {"idle", "done"}}

\* request c arrives: it is the next one, and the server has room for it
Arrives(c) ==
    /\ process = "serving"
    /\ call[c].pc = "idle"
    /\ \A d \in Calls : d < c => call[d].pc # "idle"
    /\ Cardinality(InFlight) < MaxInFlight

\* the locals of a request as it arrives; after = the requests answered before
NewCall(kind, pc) ==
    [IdleCall EXCEPT !.kind = kind, !.pc = pc, !.after = Done]

(***************************************************************************)
(* get_sp_for_session, as run at the head of every tool.                   *)
(***************************************************************************)
\* lines 89-91, 104-106, ...: the tool calls get_sp_for_session before its
\* try block, so an exception of the resolver leaves the tool as an exception
ToolOnResolveFailure(l, e) ==
    [l EXCEPT !.pc = "done", !.resolve = e, !.result = Raised(e)]

\* variant: without the check of lines 66-67, line 69 reads token_info of None
AfterQuery_NoCheck(l, found, row, t) ==
    IF ~found
    THEN ToolOnResolveFailure(l, "AttributeError")
    ELSE IF is_token_expired(row, t)
         THEN [l EXCEPT !.pc = "t_refresh", !.found = TRUE, !.row = row,
                        !.token_info = row]
         ELSE [l EXCEPT !.pc = "t_vendor", !.found = TRUE, !.row = row,
                        !.token_info = row, !.resolve = "handle",
                        !.handle = row.access_token]

\* lines 65-78 after the SELECT: found/row is what .first() returned
AfterQuery(l, found, row, t) ==
    IF ~found
    THEN ToolOnResolveFailure(l, "SessionNotFound")
    ELSE IF is_token_expired(row, t)
         THEN [l EXCEPT !.pc = "t_refresh", !.found = TRUE, !.row = row,
                        !.token_info = row]
         ELSE [l EXCEPT !.pc = "t_vendor", !.found = TRUE, !.row = row,
                        !.token_info = row, !.resolve = "handle",
                        !.handle = row.access_token]

\* variant: a rejected exchange is tried once more
OnRefreshDenied_Retry(l) ==
    IF l.attempts >= 1
    THEN ToolOnResolveFailure([l EXCEPT !.attempts = @ + 1], "RefreshDenied")
    ELSE [l EXCEPT !.attempts = @ + 1]

\* line 74 when refresh_access_token raises: nothing catches it in the resolver
OnRefreshDenied(l) ==
    ToolOnResolveFailure([l EXCEPT !.attempts = @ + 1], "RefreshDenied")

\* line 74 when refresh_access_token returns tok
OnRefreshGranted(l, tok) ==
    [l EXCEPT !.pc = "t_commit", !.attempts = @ + 1, !.token_info = tok]

\* variant: the commit of line 76 is missing
CommitRefresh_NoPersist(store, sid, tok) == store

\* variant: the UPDATE has no WHERE clause
CommitRefresh_AllRows(store, sid, tok) == [s \in DOMAIN store |-> tok]

\* lines 75-76: UPDATE spotify_sessions SET token_info = tok WHERE session_id = sid
CommitRefresh(store, sid, tok) ==
    IF sid \in DOMAIN store THEN [store EXCEPT ![sid] = tok] ELSE store

\* line 78
AfterCommit(l) ==
    [l EXCEPT !.pc = "t_vendor", !.resolve = "handle",
              !.handle = l.token_info.access_token]

\* session ids a caller may pass to a tool
SessionArgs == DOMAIN db \cup {NonexistentId}
Queries == {"Imagine", "Hey Jude"}
Playlists == {"Mix"}

HasQuery(tool) == tool \in {"search_and_play", "add_to_playlist"}
HasPlaylist(tool) == tool = "add_to_playlist"

StartTool(c, tools) ==
    /\ Arrives(c)
    /\ \E tool \in tools, sid \in SessionArgs, q \in Queries, p \in Playlists :
         call' = [call EXCEPT ![c] =
                    [NewCall("tool", "t_query") EXCEPT
                                     !.tool = tool, !.session_id = sid,
                                     !.query = IF HasQuery(tool) THEN q ELSE "",
                                     !.playlist_name =
                                         IF HasPlaylist(tool) THEN p ELSE ""]]
    /\ UNCHANGED <<environ, process, db, now, issued, rtgen>>

\* lines 63-72 (and 78 when the token is fresh)
ResolveQuery(c) ==
    LET l == call[c]
        found == l.session_id \in DOMAIN db
        row == IF found THEN db[l.session_id] ELSE NoToken
    IN /\ l.pc = "t_query"
       /\ call' = [call EXCEPT ![c] = AfterQuery(l, found, row, now)]
       /\ UNCHANGED <<environ, process, db, now, issued, rtgen>>

\* variant: a rejected refresh blanks the stored token
ResolveRefresh_ClearOnDenied(c) ==
    LET l == call[c]
        rt == l.token_info.refresh_token
    IN /\ l.pc = "t_refresh"
       /\ \/ /\ ~create_spotify_oauth
             /\ call' = [call EXCEPT ![c] = ToolOnResolveFailure(l, "SpotifyOauthError")]
             /\ db' = db
             /\ UNCHANGED <<environ, process, issued, rtgen>>
          \/ /\ create_spotify_oauth
             /\ call' = [call EXCEPT ![c] = OnRefreshDenied(l)]
             /\ db' = [db EXCEPT ![l.session_id] = NoToken]
             /\ UNCHANGED <<environ, process, issued, rtgen>>
          \/ /\ create_spotify_oauth
             /\ issued < MaxIssued
             /\ \E nrt \in RotatedRefreshTokens(rt), e \in ExpiresIns :
                  /\ call' = [call EXCEPT ![c] =
                                OnRefreshGranted(l, Issue(rt.user, nrt, e))]
                  /\ rtgen' = [rtgen EXCEPT ![rt.user] =
                                 IF nrt.gen > @ THEN nrt.gen ELSE @]
             /\ issued' = issued + 1
             /\ db' = db
       /\ UNCHANGED <<environ, process, now>>

\* lines 73-74: one refresh exchange with the authorization server
ResolveRefresh(c) ==
    LET l == call[c]
        rt == l.token_info.refresh_token
    IN /\ l.pc = "t_refresh"
       /\ \/ /\ ~create_spotify_oauth
             /\ call' = [call EXCEPT ![c] = ToolOnResolveFailure(l, "SpotifyOauthError")]
             /\ UNCHANGED <<environ, process, issued, rtgen>>
          \/ /\ create_spotify_oauth
             /\ call' = [call EXCEPT ![c] = OnRefreshDenied(l)]
             /\ UNCHANGED <<environ, process, issued, rtgen>>
          \/ /\ create_spotify_oauth
             /\ issued < MaxIssued
             /\ \E nrt \in RotatedRefreshTokens(rt), e \in ExpiresIns :
                  /\ call' = [call EXCEPT ![c] =
                                OnRefreshGranted(l, Issue(rt.user, nrt, e))]
                  /\ rtgen' = [rtgen EXCEPT ![rt.user] =
                                 IF nrt.gen > @ THEN nrt.gen ELSE @]
             /\ issued' = issued + 1
       /\ UNCHANGED <<environ, process, db, now>>

\* lines 75-78
ResolveCommit(c) ==
    LET l == call[c]
    IN /\ l.pc = "t_commit"
       /\ db' = CommitRefresh(db, l.session_id, l.token_info)
       /\ call' = [call EXCEPT ![c] = AfterCommit(l)]
       /\ UNCHANGED <<environ, process, now, issued, rtgen>>

(***************************************************************************)
(* The tools' bodies.  A script is the sequence of answers the vendor API  *)
(* gives to the calls the tool makes through the client handle.            *)
(***************************************************************************)
TrackName  == "Song"
ArtistName == "Artist"

VendorScripts(tool) ==
    CASE tool = "search_and_play" ->
           {<<"error">>, <<"empty">>, <<"items", "error">>, <<"items", "ok">>}
      [] tool \in {"pause_playback", "resume_playback", "next_track"} ->
           {<<"error">>, <<"ok">>}
      [] tool = "get_current_song" ->
           {<<"error">>, <<"none">>, <<"paused">>, <<"playing">>}
      [] tool \in {"get_my_playlists", "get_recently_played"} ->
           {<<"error">>, <<"empty">>, <<"items">>}
      [] tool = "add_to_playlist" ->
           {<<"error">>, <<"empty">>, <<"items", "error">>, <<"items", "nomatch">>,
            <<"items", "match", "error">>, <<"items", "match", "ok">>}

\* except Exception as e: return f"An error occurred: {e}"
ErrorText == Text(<<"An error occurred: ", "VendorAPIError">>)

Out(res, calls) == [result |-> res, vendor_calls |-> calls]

\* variant: lines 94-95 are missing, so line 96 indexes an empty list
search_and_play_NoEmptyCheck(query, v) ==
    IF v[1] = "error" THEN Out(ErrorText, <<"search">>)
    ELSE IF v[1] = "empty"
    THEN Out(Text(<<"An error occurred: ", "list index out of range">>), <<"search">>)
    ELSE IF v[2] = "error" THEN Out(ErrorText, <<"search", "start_playback">>)
    ELSE Out(Text(<<"Now playing: ", TrackName, " by ", ArtistName>>),
             <<"search", "start_playback">>)

\* lines 92-101
search_and_play(query, v) ==
    IF v[1] = "error" THEN Out(ErrorText, <<"search">>)
    ELSE IF v[1] = "empty"
    THEN Out(Text(<<"No results found for '", query, "'.">>), <<"search">>)
    ELSE IF v[2] = "error" THEN Out(ErrorText, <<"search", "start_playback">>)
    ELSE Out(Text(<<"Now playing: ", TrackName, " by ", ArtistName>>),
             <<"search", "start_playback">>)

\* lines 107-111, 117-121, 127-131
playback_command(vendor_call, done_text, v) ==
    IF v[1] = "error" THEN Out(ErrorText, <<vendor_call>>)
    ELSE Out(Text(<<done_text>>), <<vendor_call>>)

\* lines 137-145
get_current_song(v) ==
    IF v[1] = "error" THEN Out(ErrorText, <<"current_playback">>)
    ELSE IF v[1] = "playing"
    THEN Out(Text(<<"Currently playing: ", TrackName, " by ", ArtistName>>),
             <<"current_playback">>)
    ELSE Out(Text(<<"Nothing is currently playing.">>), <<"current_playback">>)

\* lines 151-158
get_my_playlists(v) ==
    IF v[1] = "error" THEN Out(ErrorText, <<"current_user_playlists">>)
    ELSE IF v[1] = "empty"
    THEN Out(Text(<<"You don't have any playlists.">>), <<"current_user_playlists">>)
    ELSE Out(Text(<<"Here are your playlists:\n", "- ", "Mix">>),
             <<"current_user_playlists">>)

\* lines 164-171
get_recently_played(v) ==
    IF v[1] = "error" THEN Out(ErrorText, <<"current_user_recently_played">>)
    ELSE IF v[1] = "empty"
    THEN Out(Text(<<"You haven't played any tracks recently.">>),
             <<"current_user_recently_played">>)
    ELSE Out(Text(<<"Here are your recently played tracks:\n", "- ",
                    TrackName, " by ", ArtistName>>),
             <<"current_user_recently_played">>)

\* lines 177-193
add_to_playlist(song_query, playlist_name, v) ==
    IF v[1] = "error" THEN Out(ErrorText, <<"search">>)
    ELSE IF v[1] = "empty"
    THEN Out(Text(<<"Could not find the song: '", song_query, "'.">>), <<"search">>)
    ELSE IF v[2] = "error"
    THEN Out(ErrorText, <<"search", "current_user_playlists">>)
    ELSE IF v[2] = "nomatch"
    THEN Out(Text(<<"Could not find a playlist named '", playlist_name, "'.">>),
             <<"search", "current_user_playlists">>)
    ELSE IF v[3] = "error"
    THEN Out(ErrorText, <<"search", "current_user_playlists", "playlist_add_items">>)
    ELSE Out(Text(<<"Successfully added '", TrackName, "' to your '",
                    playlist_name, "' playlist.">>),
             <<"search", "current_user_playlists", "playlist_add_items">>)

ToolBody(l, v) ==
    CASE l.tool = "search_and_play"     -> search_and_play(l.query, v)
      [] l.tool = "pause_playback"      ->
           playback_command("pause_playback", "Playback paused.", v)
      [] l.tool = "resume_playback"     ->
           playback_command("start_playback", "Playback resumed.", v)
      [] l.tool = "next_track"          ->
           playback_command("next_track", "Skipped to the next track.", v)
      [] l.tool = "get_current_song"    -> get_current_song(v)
      [] l.tool = "get_my_playlists"    -> get_my_playlists(v)
      [] l.tool = "get_recently_played" -> get_recently_played(v)
      [] l.tool = "add_to_playlist"     ->
           add_to_playlist(l.query, l.playlist_name, v)

\* the try block of a tool, run with the handle the resolver returned
ToolVendor(c) ==
    LET l == call[c]
    IN /\ l.pc = "t_vendor"
       /\ \E v \in VendorScripts(l.tool) :
            call' = [call EXCEPT ![c] =
                       [l EXCEPT !.pc = "done", !.script = v,
                                 !.result = ToolBody(l, v).result,
                                 !.vendor_calls = ToolBody(l, v).vendor_calls]]
       /\ UNCHANGED <<environ, process, db, now, issued, rtgen>>

(***************************************************************************)
(* /login and /callback.                                                   *)
(***************************************************************************)
\* lines 197-201: builds the consent URL and redirects; touches no state
Login(c) ==
    /\ Arrives(c)
    /\ call' = [call EXCEPT ![c] =
                  [NewCall("login", "done") EXCEPT
                       !.result = IF create_spotify_oauth THEN Redirect
                                  ELSE Raised("SpotifyOauthError")]]
    /\ UNCHANGED <<environ, process, db, now, issued, rtgen>>

StartCallback(c, codes) ==
    /\ Arrives(c)
    /\ \E code \in codes :
         call' = [call EXCEPT ![c] =
                    [NewCall("callback", "c_exchange") EXCEPT !.code = code]]
    /\ UNCHANGED <<environ, process, db, now, issued, rtgen>>

\* variant: a rejected code is exchanged once more
OnExchangeDenied_Retry(l) ==
    IF l.exchanges >= 1
    THEN [l EXCEPT !.pc = "done", !.exchanges = @ + 1,
                   !.result = Raised("AuthorizationDenied")]
    ELSE [l EXCEPT !.exchanges = @ + 1]

\* line 207 when create_spotify_oauth raises: the handler ends with the
\* exception before any exchange
OnOAuthRejected(l) ==
    [l EXCEPT !.pc = "done", !.result = Raised("SpotifyOauthError")]

\* line 209 when get_access_token raises: the handler ends with the exception
OnExchangeDenied(l) ==
    [l EXCEPT !.pc = "done", !.exchanges = @ + 1,
              !.result = Raised("AuthorizationDenied")]

\* line 209 when get_access_token returns tok
OnExchangeGranted(l, tok) ==
    [l EXCEPT !.pc = "c_profile", !.exchanges = @ + 1, !.token_info = tok]

\* lines 207-209: one code exchange with the authorization server
CbExchange(c) ==
    LET l == call[c]
    IN /\ l.pc = "c_exchange"
       /\ \/ /\ ~create_spotify_oauth
             /\ call' = [call EXCEPT ![c] = OnOAuthRejected(l)]
             /\ UNCHANGED <<environ, process, issued, rtgen>>
          \/ /\ create_spotify_oauth
             /\ l.code = BadCode
             /\ call' = [call EXCEPT ![c] = OnExchangeDenied(l)]
             /\ UNCHANGED <<environ, process, issued, rtgen>>
          \/ /\ create_spotify_oauth
             /\ l.code \in Users
             /\ issued < MaxIssued
             /\ \E rt \in CodeRefreshTokens(l.code), e \in ExpiresIns :
                  /\ call' = [call EXCEPT ![c] =
                                OnExchangeGranted(l, Issue(l.code, rt, e))]
                  /\ rtgen' = [rtgen EXCEPT ![l.code] = rt.gen]
             /\ issued' = issued + 1
       /\ UNCHANGED <<environ, process, db, now>>

\* line 214: user_profile.get('display_name', 'user')
display_name(profile) ==
    IF profile.has_key THEN profile.display_name ELSE DefaultName

\* lines 214-217: re.sub raises TypeError when display_name is None
AfterProfile(l, profile, random_id) ==
    IF display_name(profile) = NoStr
    THEN [l EXCEPT !.pc = "done", !.result = Raised("TypeError")]
    ELSE [l EXCEPT !.pc = "c_query",
                   !.display_name = display_name(profile),
                   !.random_id = random_id,
                   !.session_id =
                       FormatSessionId(sanitized_name(display_name(profile)),
                                       random_id)]

\* lines 211-217: the "whoami" call, then the candidate session_id
CbProfile(c, profiles, suffixes) ==
    LET l == call[c]
    IN /\ l.pc = "c_profile"
       /\ \/ call' = [call EXCEPT ![c] =
                        [l EXCEPT !.pc = "done",
                                  !.result = Raised("VendorAPIError")]]
          \/ \E profile \in profiles, random_id \in suffixes :
               call' = [call EXCEPT ![c] = AfterProfile(l, profile, random_id)]
       /\ UNCHANGED <<environ, process, db, now, issued, rtgen>>

\* line 223: the rows whose stored refresh_token equals the new one
Matches(store, token_info) ==
    {s \in DOMAIN store : store[s].refresh_token = token_info.refresh_token}

\* lines 224-229 with the row .first() returned, if any
AfterLookup(l, found, sid) ==
    IF found
    THEN [l EXCEPT !.pc = "c_commit", !.existing = TRUE, !.session_id = sid]
    ELSE [l EXCEPT !.pc = "c_commit", !.existing = FALSE]

\* lines 220-229
CbQuery(c) ==
    LET l == call[c]
        m == Matches(db, l.token_info)
    IN /\ l.pc = "c_query"
       /\ IF m = {}
          THEN call' = [call EXCEPT ![c] = AfterLookup(l, FALSE, l.session_id)]
          ELSE \E s \in m : call' = [call EXCEPT ![c] = AfterLookup(l, TRUE, s)]
       /\ UNCHANGED <<environ, process, db, now, issued, rtgen>>

\* line 230 fails when the INSERT repeats a primary key (lines 41, 228-229)
IntegrityError(store, l) == ~l.existing /\ l.session_id \in DOMAIN store

\* variant: an existing session is deleted instead of updated
CommitCallback_DeleteExisting(store, l) ==
    IF l.existing
    THEN [s \in DOMAIN store \ {l.session_id} |-> store[s]]
    ELSE IF l.session_id \in DOMAIN store
         THEN store
         ELSE store @@ (l.session_id :> l.token_info)

\* variant: the INSERT is an upsert
CommitCallback_Upsert(store, l) ==
    IF l.session_id \in DOMAIN store
    THEN [store EXCEPT ![l.session_id] = l.token_info]
    ELSE store @@ (l.session_id :> l.token_info)

\* line 230: the UPDATE or INSERT the session flushes
CommitCallback(store, l) ==
    IF l.existing
    THEN (IF l.session_id \in DOMAIN store
          THEN [store EXCEPT ![l.session_id] = l.token_info] ELSE store)
    ELSE IF l.session_id \in DOMAIN store
         THEN store
         ELSE store @@ (l.session_id :> l.token_info)

\* lines 230-253
CbCommit(c) ==
    LET l == call[c]
    IN /\ l.pc = "c_commit"
       /\ db' = CommitCallback(db, l)
       /\ call' = [call EXCEPT ![c] =
                     [l EXCEPT !.pc = "done",
                               !.result = IF IntegrityError(db, l)
                                          THEN Raised("IntegrityError")
                                          ELSE Html(l.session_id)]]
       /\ UNCHANGED <<environ, process, now, issued, rtgen>>

(***************************************************************************)
(* Environment.                                                            *)
(***************************************************************************)
Tick ==
    /\ now < MaxTicks * TickStep
    /\ now' = now + TickStep
    /\ UNCHANGED <<environ, process, db, issued, rtgen, call>>

(***************************************************************************)
(* The session lifecycle: every kind of request, a playback tool standing  *)
(* for the eight (they share their first line, get_sp_for_session), and    *)
(* users named "DJ Max!" or without a display name.                        *)
(***************************************************************************)
LifecycleTools    == {"pause_playback"}
LifecycleProfiles == {Named(DJMax), NullProfile}

Next ==
    \/ \E c \in Calls : StartTool(c, LifecycleTools)
    \/ \E c \in Calls : ResolveQuery(c)
    \/ \E c \in Calls : ResolveRefresh(c)
    \/ \E c \in Calls : ResolveCommit(c)
    \/ \E c \in Calls : ToolVendor(c)
    \/ \E c \in Calls : Login(c)
    \/ \E c \in Calls : StartCallback(c, Codes)
    \/ \E c \in Calls : CbExchange(c)
    \/ \E c \in Calls : CbProfile(c, LifecycleProfiles, SuffixSamples)
    \/ \E c \in Calls : CbQuery(c)
    \/ \E c \in Calls : CbCommit(c)
    \/ Tick

Spec == Init /\ [][Next]_vars

(***************************************************************************)
(* The dispatch surface: all eight tools with their arguments, on the      *)
(* sessions one user's authorizations leave in the table.                  *)
(***************************************************************************)
NextTools ==
    \/ \E c \in Calls : StartTool(c, Tools)
    \/ \E c \in Calls : ResolveQuery(c)
    \/ \E c \in Calls : ResolveRefresh(c)
    \/ \E c \in Calls : ResolveCommit(c)
    \/ \E c \in Calls : ToolVendor(c)
    \/ \E c \in Calls : StartCallback(c, {"u1"})
    \/ \E c \in Calls : CbExchange(c)
    \/ \E c \in Calls : CbProfile(c, {Named(DJMax)}, {RandLo})
    \/ \E c \in Calls : CbQuery(c)
    \/ \E c \in Calls : CbCommit(c)
    \/ Tick

SpecTools == Init /\ [][NextTools]_vars

(***************************************************************************)
(* Properties.                                                             *)
(***************************************************************************)
ToolCalls     == {c \in Calls : call[c].kind = "tool"}
CallbackCalls == {c \in Calls : call[c].kind = "callback"}

\* neither request was answered before the other arrived
Concurrent(c1, c2) ==
    /\ c1 # c2
    /\ c1 \notin call[c2].after
    /\ c2 \notin call[c1].after

\* the user a stored or issued token belongs to
Owner(token_info) == token_info.access_token.user

\* C1: concurrent resolves of one session that read the same stale token do
\* not both send a refresh exchange to the authorization server.
C1_OneRefreshPerStaleToken ==
    \A c1 \in ToolCalls, c2 \in ToolCalls :
        ( /\ Concurrent(c1, c2)
          /\ call[c1].session_id = call[c2].session_id
          /\ call[c1].found /\ call[c2].found
          /\ call[c1].row = call[c2].row )
        => ~(call[c1].attempts >= 1 /\ call[c2].attempts >= 1)

\* C2: two successive successful /callback runs of one identity show the
\* same session_id, whatever tokens the authorization server issued.
C2_SameSessionIdTwice ==
    \A c1 \in CallbackCalls, c2 \in CallbackCalls :
        ( /\ c1 \in call[c2].after
          /\ call[c2].pc = "done"
          /\ call[c1].result.kind = "html" /\ call[c2].result.kind = "html"
          /\ call[c1].code = call[c2].code )
        => call[c1].result.session_id = call[c2].result.session_id

\* C3: no identity owns two session records.
C3_OneSessionPerIdentity ==
    \A s1 \in DOMAIN db, s2 \in DOMAIN db :
        Owner(db[s1]) = Owner(db[s2]) => s1 = s2

\* C4: /callback with a valid code whose identity fetch succeeded shows a
\* session_id that is stored, and a later resolve of that id finds it.
C4_CompleteThenResolve ==
    \A c \in CallbackCalls :
        ( /\ call[c].pc = "done"
          /\ call[c].code \in Users
          /\ call[c].result # Raised("VendorAPIError") )
        => /\ call[c].result.kind = "html"
           /\ call[c].result.session_id \in DOMAIN db
           /\ \A t \in ToolCalls :
                ( /\ c \in call[t].after
                  /\ call[t].session_id = call[c].result.session_id
                  /\ call[t].pc # "t_query" )
                => call[t].resolve # "SessionNotFound"

\* C8: a tool that has finished has returned a text result, whatever the
\* resolver and the vendor API did.
C8_ToolsNeverRaise ==
    \A c \in ToolCalls : call[c].pc = "done" => call[c].result.kind = "text"

\* a step of request c
Steps(c) == call'[c] # call[c]

\* what C5 asks of one step of tool request c
C5_Step(c) ==
    LET l == call[c]
        n == call'[c]
    IN /\ ( /\ l.pc = "t_query"
            /\ l.session_id \in DOMAIN db
            /\ db[l.session_id].expires_at < now )
          => n.pc = "t_refresh" /\ n.attempts = 0 /\ n.resolve = "none"
       /\ l.pc = "t_refresh"
          => n.attempts = 1 /\ n.pc \in {"t_commit", "done"}
       /\ l.pc = "t_commit"
          => /\ n.pc = "t_vendor" /\ n.resolve = "handle" /\ n.attempts = 1
             /\ n.handle # l.row.access_token
             /\ l.session_id \in DOMAIN db'
             /\ db'[l.session_id].access_token = n.handle
             /\ db'[l.session_id].expires_at = l.token_info.expires_at

\* C5: a resolve that reads a token whose expires_at is in the past goes on
\* to exactly one refresh exchange, and when it returns, the handle carries an
\* access token other than the one read, which (with its expires_at) is what
\* the table holds for the session.
C5_StaleResolveRefreshesOnce ==
    [][\A c \in Calls : (call[c].kind = "tool" /\ Steps(c)) => C5_Step(c)]_vars

C5_Witness ==
    \E c \in ToolCalls :
        /\ call[c].resolve = "handle" /\ call[c].attempts = 1
        /\ call[c].row.expires_at < now
        /\ call[c].handle # call[c].row.access_token
        /\ db[call[c].session_id].access_token = call[c].handle

\* what C6 asks of one step of tool request c
C6_Step(c) ==
    LET l == call[c]
        n == call'[c]
    IN /\ ( /\ l.pc = "t_query"
            /\ l.session_id \in DOMAIN db
            /\ db[l.session_id].expires_at - now >= Skew )
          => /\ n.pc = "t_vendor" /\ n.resolve = "handle" /\ n.attempts = 0
             /\ n.handle = db[l.session_id].access_token
             /\ db' = db /\ issued' = issued /\ rtgen' = rtgen
       /\ (l.pc = "t_vendor" /\ l.attempts = 0)
          => /\ n.pc = "done" /\ n.attempts = 0 /\ n.handle = l.handle
             /\ db' = db /\ issued' = issued /\ rtgen' = rtgen

\* C6: a resolve that reads a token whose expires_at is at least the skew
\* ahead sends no refresh exchange, leaves the table as it is and returns a
\* handle carrying the stored access token; the tool's vendor calls that
\* follow change neither.
C6_FreshResolveNoRefresh ==
    [][\A c \in Calls : (call[c].kind = "tool" /\ Steps(c)) => C6_Step(c)]_vars

C6_Witness ==
    \E c \in ToolCalls :
        /\ call[c].pc = "done" /\ call[c].resolve = "handle"
        /\ call[c].attempts = 0
        /\ call[c].row.expires_at - now >= Skew
        /\ db[call[c].session_id] = call[c].row

\* what C7 asks of one step of tool request c
C7_Step(c) ==
    LET l == call[c]
        n == call'[c]
    IN (l.pc = "t_query" /\ l.session_id \notin DOMAIN db)
       => /\ n.pc = "done" /\ n.resolve = "SessionNotFound"
          /\ n.attempts = 0 /\ n.handle = NoAccess
          /\ db' = db /\ issued' = issued

C9_RefreshDeniedNotRetried ==
    \A c \in ToolCalls :
        /\ call[c].attempts <= 1
        /\ call[c].pc = "t_refresh" => call[c].attempts = 0
        /\ call[c].resolve = "RefreshDenied"
           => /\ call[c].pc = "done" /\ call[c].attempts = 1
              /\ call[c].result = Raised("RefreshDenied")
              /\ call[c].handle = NoAccess
        /\ (call[c].attempts = 1 /\ call[c].resolve # "RefreshDenied")
           => /\ call[c].pc \in {"t_commit", "t_vendor", "done"}
              /\ call[c].token_info.access_token # call[c].row.access_token

C9_Witness ==
    \E c \in ToolCalls :
        /\ call[c].resolve = "RefreshDenied" /\ call[c].attempts = 1
        /\ db[call[c].session_id] = call[c].row

\* what C10 asks of one step of callback request c
C10_Step(c) ==
    LET n == call'[c]
    IN /\ n.pc = "done" /\ n.exchanges = 1
       /\ n.result = Raised("AuthorizationDenied")
       /\ db' = db

\* C10: /callback with a bad code ends, after one code exchange, with the
\* authorization-denied error, and no step of it changes the table.
C10_BadCodeDenied ==
    [][\A c \in Calls : (call[c].code = BadCode /\ Steps(c)) => C10_Step(c)]_vars

C10_Witness ==
    \E c \in CallbackCalls :
        /\ call[c].code = BadCode /\ call[c].pc = "done"
        /\ call[c].result = Raised("AuthorizationDenied")
        /\ DOMAIN db # {}

(***************************************************************************)
(* Minting: one /callback, over many display names and suffixes.           *)
(***************************************************************************)
MintAlphabet == {"a", "Z", "9", " ", "!", "-", "_"}
MintNames ==
    {<<>>, DJMax, DjMax, Zed9}
    \cup {<<x>> : x \in MintAlphabet}
    \cup {<<x, y>> : x \in MintAlphabet, y \in MintAlphabet}
MintProfiles == {Named(name) : name \in MintNames} \cup {KeylessProfile}
MintSuffixes == {RandLo, RandLo + 1, RandHi - 1, RandHi}

NextMint ==
    \/ StartCallback(1, {"u1"})
    \/ CbExchange(1)
    \/ CbProfile(1, MintProfiles, MintSuffixes)
    \/ CbQuery(1)
    \/ CbCommit(1)

SpecMint == Init /\ [][NextMint]_vars

\* /callback request c has just minted call[c].session_id (lines 214-217)
\* from call[c].display_name and call[c].random_id
Minted(c) == call[c].kind = "callback" /\ call[c].pc = "c_query"

ThreeDigits(s) == Len(s) = 3 /\ \A i \in 1..3 : IsDigit(s[i])

\* sid matches prefix\d{3}
MatchesPrefixDigits(sid, prefix) ==
    /\ Len(sid) = Len(prefix) + 3
    /\ SubSeq(sid, 1, Len(prefix)) = prefix
    /\ ThreeDigits(SubSeq(sid, Len(prefix) + 1, Len(sid)))

\* C11 as stated: the session_id minted for "DJ Max!" matches dj-max-\d{3}.
C11_DjMaxSingleHyphen ==
    \A c \in Calls :
        (Minted(c) /\ call[c].display_name = DJMax)
        => MatchesPrefixDigits(call[c].session_id,
                               <<"d", "j", "-", "m", "a", "x", "-">>)

\* C11 amended: the session_id minted for "DJ Max!" matches dj-max--\d{3}:
\* the sanitized name dj-max- (its "!" becomes a separator too), one
\* separator, then exactly three digits.
C11_DjMaxDoubleHyphen ==
    \A c \in Calls :
        (Minted(c) /\ call[c].display_name = DJMax)
        => MatchesPrefixDigits(call[c].session_id,
                               <<"d", "j", "-", "m", "a", "x", "-", "-">>)

C11_Witness ==
    \E c \in Calls :
        /\ Minted(c) /\ call[c].display_name = DJMax
        /\ call[c].random_id = RandHi

DigitValue(ch) == (CHOOSE j \in 1..10 : Digit[j] = ch) - 1

\* C15: a minted session_id is the display name, character by character,
\* with lower-case letters and digits kept, upper-case letters lowered and
\* every other character replaced by "-", then "-", then the three decimal
\* digits of a suffix in 100..999; so it consists of [a-z0-9-] only.
C15_MintShape ==
    \A c \in Calls :
        Minted(c) =>
            LET name == call[c].display_name
                sid  == call[c].session_id
                k    == Len(name)
            IN /\ Len(sid) = k + 4
               /\ \A i \in 1..k :
                    /\ (IsLower(name[i]) \/ IsDigit(name[i])) => sid[i] = name[i]
                    /\ IsUpper(name[i])
                       => \E j \in 1..26 : Upper[j] = name[i] /\ sid[i] = Lower[j]
                    /\ ~IsAlnum(name[i]) => sid[i] = "-"
               /\ sid[k + 1] = "-"
               /\ ThreeDigits(SubSeq(sid, k + 2, k + 4))
               /\ 100 * DigitValue(sid[k + 2]) + 10 * DigitValue(sid[k + 3])
                    + DigitValue(sid[k + 4]) = call[c].random_id
               /\ call[c].random_id \in 100..999
               /\ \A i \in 1..Len(sid) :
                    IsLower(sid[i]) \/ IsDigit(sid[i]) \/ sid[i] = "-"

C15_Witness ==
    \E c \in Calls :
        /\ Minted(c)
        /\ call[c].display_name = <<"Z", "!">>
        /\ call[c].session_id = <<"z", "-", "-", "1", "0", "1">>

\* C12: search_and_play whose session resolved and whose vendor search
\* returned no items has returned exactly No results found for '<query>'.
\* and has made no start_playback call.
C12_NoResultsText ==
    \A c \in ToolCalls :
        ( /\ call[c].pc = "done"
          /\ call[c].tool = "search_and_play"
          /\ call[c].resolve = "handle"
          /\ call[c].script = <<"empty">> )
        => /\ call[c].result.kind = "text"
           /\ call[c].result.text =
                  <<"No results found for '", call[c].query, "'.">>
           /\ \A i \in 1..Len(call[c].vendor_calls) :
                  call[c].vendor_calls[i] # "start_playback"

C12_Witness ==
    \E c \in ToolCalls :
        /\ call[c].pc = "done" /\ call[c].tool = "search_and_play"
        /\ call[c].resolve = "handle" /\ call[c].script = <<"empty">>
        /\ call[c].query = "Imagine"
        /\ call[c].result.text = <<"No results found for '", "Imagine", "'.">>

\* C14: no step of any request, successful or failed, removes a session_id
\* from the table.
C14_NeverDeleted == [][DOMAIN db \subseteq DOMAIN db']_vars

C14_Witness ==
    /\ Cardinality(DOMAIN db) = 1
    /\ \E c \in CallbackCalls : call[c].pc = "done" /\ call[c].existing
    /\ \E c \in Calls : call[c].pc = "done" /\ call[c].result.kind = "raise"

\* what C16 asks of one step of request c
C16_Step(c) ==
    LET l == call[c]
        n == call'[c]
    IN /\ n.kind = "login" => db' = db
       /\ n.kind = "tool"
          => /\ DOMAIN db' = DOMAIN db
             /\ \A s \in DOMAIN db : s # n.session_id => db'[s] = db[s]

\* C16: a /login request leaves the table as it is, and a step of a tool
\* called with session_id s leaves every row stored under another id as it is.
C16_LoginAndResolveFrame ==
    [][\A c \in Calls : Steps(c) => C16_Step(c)]_vars

C16_Witness ==
    \E c \in ToolCalls :
        /\ call[c].attempts = 1 /\ call[c].resolve = "handle"
        /\ db[call[c].session_id].access_token = call[c].handle
        /\ \E s \in DOMAIN db :
             s # call[c].session_id /\ Owner(db[s]) # Owner(db[call[c].session_id])

\* what C17 asks of one step of /callback request c, made by identity B
C17_Step(c) ==
    LET n == call'[c]
        B == n.code
    IN /\ \A s \in DOMAIN db :
            Owner(db[s]) # B => (s \in DOMAIN db' /\ db'[s] = db[s])
       /\ n.result.kind = "html"
          => /\ n.result.session_id \in DOMAIN db'
             /\ Owner(db'[n.result.session_id]) = B

\* C17: a /callback of identity B leaves every row of another identity as
\* it is, also when the session_id minted for B is already taken by such a
\* row, and the session_id it shows is stored with a token of B.
C17_NoCrossIdentityOverwrite ==
    [][\A c \in Calls :
         (call'[c].kind = "callback" /\ call'[c].code \in Users /\ Steps(c))
         => C17_Step(c)]_vars

C17_Witness ==
    \E c \in CallbackCalls :
        /\ call[c].pc = "done" /\ call[c].code \in Users
        /\ call[c].result = Raised("IntegrityError")
        /\ call[c].session_id \in DOMAIN db
        /\ Owner(db[call[c].session_id]) # call[c].code

FailureKinds == {"SessionNotFound", "RefreshDenied", "AuthorizationDenied",
                 "VendorAPIError", "TypeError"}

\* what C18 asks of one step of request c
C18_Step(c) ==
    LET l == call[c]
        n == call'[c]
    IN /\ (n.result.kind = "raise" /\ n.result.err \in FailureKinds)
          => /\ db' = db
             /\ l.pc \in {"t_query", "t_refresh", "c_exchange", "c_profile"}
       /\ db' # db => l.pc \in {"t_commit", "c_commit"}

\* C18: the step at which a resolve fails (session absent, refresh rejected)
\* or a /callback fails (code exchange, identity fetch, display name) leaves
\* the table as it is, and comes before the only step at which that request
\* writes; so a rejected refresh leaves the session's old token in place.
C18_FailureLeavesStore ==
    [][\A c \in Calls : Steps(c) => C18_Step(c)]_vars

C18_Witness ==
    \E c \in ToolCalls :
        /\ call[c].resolve = "RefreshDenied"
        /\ db[call[c].session_id] = call[c].row
        /\ \E d \in CallbackCalls : call[d].result = Raised("VendorAPIError")

\* C19: when no request is in flight, the access token stored for a session
\* is no older than any token a finished resolve or /callback obtained from
\* the authorization server for that session.
C19_LatestTokenStored ==
    InFlight = {} =>
        \A c \in Calls :
            LET l == call[c]
            IN ( \/ l.kind = "tool" /\ l.resolve = "handle" /\ l.attempts = 1
                 \/ l.kind = "callback" /\ l.result.kind = "html" )
               => /\ l.session_id \in DOMAIN db
                  /\ l.token_info.access_token.serial
                       <= db[l.session_id].access_token.serial

(***************************************************************************)
(* Process start: the module is imported with any subset of the four       *)
(* configuration values set, then the routes of lines 255-258 are served.  *)
(***************************************************************************)
\* the process before line 18 has run, os.environ holding any of the values
InitStartup ==
    /\ db = <<>>
    /\ now = 0
    /\ issued = 0
    /\ rtgen = [u \in Users |-> 0]
    /\ call = [c \in Calls |-> IdleCall]
    /\ environ \in SUBSET ConfigKeys
    /\ process = "importing"

\* lines 18-45 and 255-262: the import reads the four values, raises
\* ValueError only when DATABASE_URL is missing (lines 30-31), and otherwise
\* runs to the end of the module, where uvicorn serves the routes
Startup ==
    /\ process = "importing"
    /\ process' = IF "DATABASE_URL" \in environ THEN "serving" ELSE "failed"
    /\ UNCHANGED <<db, now, issued, rtgen, call, environ>>

NextStartup ==
    \/ Startup
    \/ \E c \in Calls : StartTool(c, LifecycleTools)
    \/ \E c \in Calls : ResolveQuery(c)
    \/ \E c \in Calls : ResolveRefresh(c)
    \/ \E c \in Calls : ResolveCommit(c)
    \/ \E c \in Calls : ToolVendor(c)
    \/ \E c \in Calls : Login(c)
    \/ \E c \in Calls : StartCallback(c, Codes)
    \/ \E c \in Calls : CbExchange(c)
    \/ \E c \in Calls : CbProfile(c, LifecycleProfiles, SuffixSamples)
    \/ \E c \in Calls : CbQuery(c)
    \/ \E c \in Calls : CbCommit(c)
    \/ Tick

SpecStartup == InitStartup /\ [][NextStartup]_vars

\* C13: a process started with any of the four configuration values (client
\* id, client secret, redirect URI, storage connection string) missing never
\* reaches the serving state in which /login, /callback or a tool can run
C13_MissingConfigNeverServes ==
    environ # ConfigKeys => process # "serving"

\* the part of C13 the code does implement: without the connection string
\* the import fails before any route is served
C13_MissingDatabaseUrlNeverServes ==
    "DATABASE_URL" \notin environ => process # "serving"

\* a request answered by a process that lacks an OAuth value
C13_ServedUnconfigured ==
    /\ process = "serving"
    /\ ~create_spotify_oauth
    /\ \E c \in Calls : /\ call[c].kind = "login"
                        /\ call[c].result = Raised("SpotifyOauthError")

=============================================================================
